---------------------------- MODULE Spec2Model ----------------------------
(***************************************************************************)
(* PNGme chunk codec: ChunkType (src/src/chunk_type.rs) and Chunk          *)
(* (src/src/chunk.rs).                                                     *)
(*                                                                         *)
(* Values.  A byte is a number in 0..255.  A u32 (and the usize obtained   *)
(* from one by `as usize`) is kept as a pair <<hi, lo>> of 16-bit limbs,   *)
(* value hi * 65536 + lo, because TLC integers are 32-bit signed and a     *)
(* u32 does not fit.  Inside the CRC a u32 is a vector of 32 bits.         *)
(* A slice, Vec<u8> or [u8; 4] is a sequence of bytes; a &str is the       *)
(* sequence of its UTF-8 bytes.                                            *)
(*                                                                         *)
(* Results.  Ok(v), Err(e), and Panicked for a call that unwinds (a        *)
(* slice split past the end).                                              *)
(***************************************************************************)
EXTENDS Integers, Sequences, FiniteSets, TLC

VARIABLES
    op,       \* the call made last
    input,    \* the &str or [u8; 4] a ChunkType was asked from
    tagRes,   \* the Result of that ChunkType construction
    payload,  \* the Vec<u8> a Chunk was built around
    chunk,    \* the Chunk held by the caller
    out,      \* the Vec<u8> as_bytes returned
    buf,      \* the slice handed to Chunk::try_from
    res,      \* the Result of that call
    buf2,     \* the same slice followed by further bytes
    res2      \* the Result of Chunk::try_from on buf2

vars == <<op, input, tagRes, payload, chunk, out, buf, res, buf2, res2>>

-----------------------------------------------------------------------------
(* Results *)

Ok(v) == [kind |-> "Ok", val |-> v]

Err(e) == [kind |-> "Err", err |-> e]

Panicked == [kind |-> "Panic"]

None == [kind |-> "None"]

-----------------------------------------------------------------------------
(* u32 arithmetic on 16-bit limbs and on bit vectors *)

Bit == 0..31

\* value as u32 of a small non-negative number (`n as u32`)
as_u32(n) == <<(n \div 65536) % 65536, n % 65536>>

\* a variant: the bytes least significant first
to_le_bytes(u) == <<u[2] % 256, u[2] \div 256, u[1] % 256, u[1] \div 256>>

\* u32::to_be_bytes
to_be_bytes(u) == <<u[1] \div 256, u[1] % 256, u[2] \div 256, u[2] % 256>>

\* u32::from_be_bytes on a 4-byte slice
from_be_bytes(b) == <<b[1] * 256 + b[2], b[3] * 256 + b[4]>>

\* a usize obtained from a u32, compared with a slice length (below 65536)
usize_le(u, n) == u[1] = 0 /\ u[2] <= n

\* the bits of a number below 2^16 placed at bit `at` of a 32-bit word
bits_of(n, at) == [i \in Bit |-> i >= at /\ i < at + 16 /\ (n \div (2 ^ (i - at))) % 2 = 1]

word_of(u) == [i \in Bit |-> IF i < 16 THEN bits_of(u[2], 0)[i] ELSE bits_of(u[1], 16)[i]]

RECURSIVE num_of(_, _, _)
\* the number held in bits lo..hi of w
num_of(w, lo, hi) ==
    IF hi < lo THEN 0
    ELSE (IF w[lo] THEN 1 ELSE 0) + 2 * num_of(w, lo + 1, hi)

u32_of(w) == <<num_of(w, 16, 31), num_of(w, 0, 15)>>

xor(a, b) == [i \in Bit |-> a[i] # b[i]]

shr(a, k) == [i \in Bit |-> IF i + k <= 31 THEN a[i + k] ELSE FALSE]

not(a) == [i \in Bit |-> ~a[i]]

-----------------------------------------------------------------------------
(* crc::crc32::checksum_ieee, the table-driven reflected CRC-32 *)

\* crc::crc32::IEEE = 0xEDB88320
IEEE == word_of(<<60856, 33568>>)

RECURSIVE table_entry(_, _)
table_entry(value, n) ==
    IF n = 0 THEN value
    ELSE table_entry(IF value[0] THEN xor(shr(value, 1), IEEE) ELSE shr(value, 1), n - 1)

\* crc::crc32::make_table(IEEE)
IEEE_TABLE == [i \in 0..255 |-> table_entry(word_of(<<0, i>>), 8)]

RECURSIVE update(_, _, _)
\* the loop of crc::crc32::update over bytes[k..]
update(value, bytes, k) ==
    IF k > Len(bytes) THEN value
    ELSE update(xor(IEEE_TABLE[num_of(xor(value, word_of(<<0, bytes[k]>>)), 0, 7)],
                    shr(value, 8)),
                bytes, k + 1)

checksum_ieee(bytes) == u32_of(not(update(not(word_of(<<0, 0>>)), bytes, 1)))

-----------------------------------------------------------------------------
(* src/src/chunk_type.rs *)

is_ascii_lowercase(b) == b >= 97 /\ b <= 122

is_ascii_uppercase(b) == b >= 65 /\ b <= 90

\* struct ChunkType { bytes: [u8; 4] }
ChunkType(b) == [bytes |-> b]

bytes_of(t) == t.bytes

is_critical(t) == is_ascii_uppercase(t.bytes[1])

is_public(t) == is_ascii_uppercase(t.bytes[2])

\* a variant: the reserved bit looked up one byte early
reserved_bit_at_index_1(t) == is_ascii_uppercase(t.bytes[2])

is_reserved_bit_valid(t) == is_ascii_uppercase(t.bytes[3])

is_safe_to_copy(t) == is_ascii_lowercase(t.bytes[4])

is_valid(t) ==
    LET valid_chars ==
            \A i \in 1..4 : is_ascii_lowercase(t.bytes[i]) \/ is_ascii_uppercase(t.bytes[i])
    IN valid_chars /\ is_reserved_bit_valid(t)

\* impl TryFrom<[u8; 4]> for ChunkType
ChunkType_try_from(b) == Ok(ChunkType(b))

\* enum ChunkTypeError
ByteLengthError(n) == [name |-> "ByteLengthError", len |-> n]

InvalidCharacter == [name |-> "InvalidCharacter"]

\* the error returned at line 66 when some byte is not a letter
invalid_bytes_error(byte_arr) == ByteLengthError(Len(byte_arr))

\* impl FromStr for ChunkType; byte_str is the string's UTF-8 bytes
from_str(byte_str) ==
    LET byte_arr == byte_str IN
    IF Len(byte_arr) # 4 THEN Err(ByteLengthError(Len(byte_arr)))
    ELSE LET valid_bytes ==
                 \A i \in 1..Len(byte_arr) :
                     is_ascii_lowercase(byte_arr[i]) \/ is_ascii_uppercase(byte_arr[i])
         IN IF ~valid_bytes THEN Err(invalid_bytes_error(byte_arr))
            ELSE ChunkType_try_from(<<byte_arr[1], byte_arr[2], byte_arr[3], byte_arr[4]>>)

-----------------------------------------------------------------------------
(* src/src/chunk.rs *)

DATA_LENGTH_BYTES == 4

CHUNK_TYPE_BYTES == 4

CRC_BYTES == 4

\* a variant: the checksum bytes left out of the count
metadata_without_crc == DATA_LENGTH_BYTES + CHUNK_TYPE_BYTES

METADATA_BYTES == DATA_LENGTH_BYTES + CHUNK_TYPE_BYTES + CRC_BYTES

\* struct Chunk { chunk_type, message_bytes }
Chunk(t, m) == [chunk_type |-> t, message_bytes |-> m]

length(c) == Len(c.message_bytes)

chunk_type_of(c) == c.chunk_type

data(c) == c.message_bytes

crc(c) == checksum_ieee(bytes_of(c.chunk_type) \o c.message_bytes)

\* a variant: the checksum field computed over the payload alone
as_bytes_crc_of_data(c) ==
    LET data_length == as_u32(Len(c.message_bytes)) IN
    to_be_bytes(data_length) \o bytes_of(chunk_type_of(c)) \o data(c)
        \o to_be_bytes(checksum_ieee(data(c)))

as_bytes(c) ==
    LET data_length == as_u32(Len(c.message_bytes)) IN
    to_be_bytes(data_length) \o bytes_of(chunk_type_of(c)) \o data(c) \o to_be_bytes(crc(c))

\* enum ChunkError
InvalidCrc(expected, actual) == [name |-> "InvalidCrc", expected |-> expected, actual |-> actual]

InputTooSmall == [name |-> "InputTooSmall"]

InvalidChunkType == [name |-> "InvalidChunkType"]

\* a small usize constant as limbs
usize(n) == <<0, n>>

\* <[T]>::split_at(mid) panics when mid > len
split_at_panics(s, mid) == ~usize_le(mid, Len(s))

\* <[T]>::split_at(mid) when it returns
split_at(s, mid) == <<SubSeq(s, 1, mid[2]), SubSeq(s, mid[2] + 1, Len(s))>>

\* a variant: the two values of InvalidCrc in the other order
validate_crc_swapped(new, crc_bytes) ==
    LET actual_crc == crc(new)
        expected_crc == from_be_bytes(crc_bytes)
    IN IF expected_crc # actual_crc THEN Err(InvalidCrc(actual_crc, expected_crc))
       ELSE Ok(new)

\* lines 91-98: the candidate's crc against the four bytes read
validate_crc(new, crc_bytes) ==
    LET actual_crc == crc(new)
        expected_crc == from_be_bytes(crc_bytes)
    IN IF expected_crc # actual_crc THEN Err(InvalidCrc(expected_crc, actual_crc))
       ELSE Ok(new)

\* a variant: the checksum taken from the last four bytes of the slice
parse_body_crc_at_end(chunk_type, bytes, data_length) ==
    IF split_at_panics(bytes, data_length) THEN Panicked
    ELSE LET s3 == split_at(bytes, data_length) IN
         IF split_at_panics(s3[2], usize(CRC_BYTES)) THEN Panicked
         ELSE LET new == Chunk(chunk_type, s3[1])
              IN validate_crc(new, SubSeq(s3[2], Len(s3[2]) - CRC_BYTES + 1, Len(s3[2])))

\* lines 81-98: the bytes after the chunk type
parse_body(chunk_type, bytes, data_length) ==
    IF split_at_panics(bytes, data_length) THEN Panicked
    ELSE LET s3 == split_at(bytes, data_length) IN
         IF split_at_panics(s3[2], usize(CRC_BYTES)) THEN Panicked
         ELSE LET s4 == split_at(s3[2], usize(CRC_BYTES))
                  new == Chunk(chunk_type, s3[1])
              IN validate_crc(new, s4[1])

\* a variant: the chunk type validated after the payload and checksum are read
try_from_tag_checked_last(bytes) ==
    IF Len(bytes) < METADATA_BYTES THEN Err(InputTooSmall)
    ELSE LET s1 == split_at(bytes, usize(DATA_LENGTH_BYTES))
             data_length == from_be_bytes(s1[1])
             s2 == split_at(s1[2], usize(CHUNK_TYPE_BYTES))
             chunk_type == ChunkType_try_from(s2[1]).val
             body == parse_body(chunk_type, s2[2], data_length)
         IN IF body.kind = "Ok" /\ ~is_valid(chunk_type) THEN Err(InvalidChunkType)
            ELSE body

\* impl TryFrom<&[u8]> for Chunk
Chunk_try_from(bytes) ==
    IF Len(bytes) < METADATA_BYTES THEN Err(InputTooSmall)
    ELSE IF split_at_panics(bytes, usize(DATA_LENGTH_BYTES)) THEN Panicked
    ELSE LET s1 == split_at(bytes, usize(DATA_LENGTH_BYTES))
             data_length == from_be_bytes(s1[1])
         IN IF split_at_panics(s1[2], usize(CHUNK_TYPE_BYTES)) THEN Panicked
            ELSE LET s2 == split_at(s1[2], usize(CHUNK_TYPE_BYTES))
                     chunk_type == ChunkType_try_from(s2[1]).val
                 IN IF ~is_valid(chunk_type) THEN Err(InvalidChunkType)
                    ELSE parse_body(chunk_type, s2[2], data_length)

-----------------------------------------------------------------------------
(* Bounds and the inputs the calls are made with *)

\* longest &str handed to from_str, in characters
MaxChars == 5

\* longest payload of a chunk built or laid out in a buffer
MaxData == 3

\* most bytes appended after a parsed buffer
MaxTrail == 2

\* characters of the strings: 'R', 's', '1', '[' and the two-byte U+00E9
Chars == {<<82>>, <<115>>, <<49>>, <<91>>, <<195, 169>>}

RECURSIVE TextsUpTo(_)
TextsUpTo(n) ==
    IF n = 0 THEN {<<>>}
    ELSE LET shorter == TextsUpTo(n - 1)
         IN shorter \cup {s \o c : s \in shorter, c \in Chars}

Texts == TextsUpTo(MaxChars)

\* byte values around the two letter ranges, and the extremes
TagByte == {0, 64, 65, 90, 91, 96, 97, 122, 123, 255}

RawTags == {<<a, b, c, d>> : a \in TagByte, b \in TagByte, c \in TagByte, d \in TagByte}

\* "RuSt", "Rust", "ruST", "Ru1t", and a tag with a byte above the ASCII range
ChunkTags == {<<82, 117, 83, 116>>, <<82, 117, 115, 116>>, <<114, 117, 83, 84>>,
              <<82, 117, 49, 116>>, <<82, 255, 83, 116>>}

DataByte == {0, 255}

RECURSIVE SeqsUpTo(_, _)
SeqsUpTo(S, n) ==
    IF n = 0 THEN {<<>>}
    ELSE LET shorter == SeqsUpTo(S, n - 1)
         IN shorter \cup {Append(s, x) : s \in shorter, x \in S}

Payloads == SeqsUpTo(DataByte, MaxData)

Trailings == SeqsUpTo(DataByte, MaxTrail) \ {<<>>}

\* length fields: every length up to one past the longest payload, 256, 2^32 - 1
LenFields == {<<0, 0, 0, n>> : n \in 0..(MaxData + 1)}
                 \cup {<<0, 0, 1, 0>>, <<255, 255, 255, 255>>}

\* u - 1 (wrapping), the corrupted checksum of test_invalid_chunk_from_bytes
u32_dec(u) ==
    IF u[2] > 0 THEN <<u[1], u[2] - 1>>
    ELSE IF u[1] > 0 THEN <<u[1] - 1, 65535>>
    ELSE <<65535, 65535>>

\* checksum fields for a tag and payload: the right one, one less, zero
CrcFields(t, p) ==
    LET c == crc(Chunk(ChunkType(t), p))
    IN {to_be_bytes(c), to_be_bytes(u32_dec(c)), <<0, 0, 0, 0>>}

\* buffers laid out as length, tag, payload, checksum, the fields chosen freely
LaidOut ==
    UNION {{lf \o t \o p \o c : c \in CrcFields(t, p)} :
              lf \in LenFields, t \in ChunkTags, p \in Payloads}

\* every proper beginning of those that is shorter than the metadata
Truncated == {SubSeq(b, 1, k) : b \in LaidOut, k \in 0..(METADATA_BYTES - 1)}

Buffers == LaidOut \cup Truncated

-----------------------------------------------------------------------------
(* The calls *)

Init ==
    /\ op = "init"
    /\ input = <<>>
    /\ tagRes = None
    /\ payload = <<>>
    /\ chunk = None
    /\ out = <<>>
    /\ buf = <<>>
    /\ res = None
    /\ buf2 = <<>>
    /\ res2 = None

\* ChunkType::from_str(s)
FromStr ==
    /\ op = "init"
    /\ \E s \in Texts :
        /\ input' = s
        /\ tagRes' = from_str(s)
    /\ op' = "from_str"
    /\ UNCHANGED <<payload, chunk, out, buf, res, buf2, res2>>

\* ChunkType::try_from(b)
TryFromBytes ==
    /\ op = "init"
    /\ \E b \in RawTags :
        /\ input' = b
        /\ tagRes' = ChunkType_try_from(b)
    /\ op' = "try_from_bytes"
    /\ UNCHANGED <<payload, chunk, out, buf, res, buf2, res2>>

\* Chunk { chunk_type: ChunkType::try_from(t).unwrap(), message_bytes: p }
NewChunk ==
    /\ op = "init"
    /\ \E t \in ChunkTags, p \in Payloads :
        /\ input' = t
        /\ tagRes' = ChunkType_try_from(t)
        /\ payload' = p
        /\ chunk' = Ok(Chunk(tagRes'.val, p))
    /\ op' = "new"
    /\ UNCHANGED <<out, buf, res, buf2, res2>>

\* chunk.as_bytes()
AsBytes ==
    /\ op = "new"
    /\ out' = as_bytes(chunk.val)
    /\ op' = "as_bytes"
    /\ UNCHANGED <<input, tagRes, payload, chunk, buf, res, buf2, res2>>

\* Chunk::try_from(out.as_ref()), on the bytes as_bytes returned
ParseSerialized ==
    /\ op = "as_bytes"
    /\ buf' = out
    /\ res' = Chunk_try_from(out)
    /\ op' = "round_trip"
    /\ UNCHANGED <<input, tagRes, payload, chunk, out, buf2, res2>>

\* Chunk::try_from(b) on a buffer from outside
Parse ==
    /\ op = "init"
    /\ \E b \in Buffers :
        /\ buf' = b
        /\ res' = Chunk_try_from(b)
    /\ op' = "parse"
    /\ UNCHANGED <<input, tagRes, payload, chunk, out, buf2, res2>>

\* Chunk::try_from on the same buffer with further bytes after it
ParseExtended ==
    /\ op \in {"parse", "round_trip"}
    /\ \E t \in Trailings :
        /\ buf2' = buf \o t
        /\ res2' = Chunk_try_from(buf \o t)
    /\ op' = "parse_ext"
    /\ UNCHANGED <<input, tagRes, payload, chunk, out, buf, res>>

Next ==
    \/ FromStr
    \/ TryFromBytes
    \/ NewChunk
    \/ AsBytes
    \/ ParseSerialized
    \/ Parse
    \/ ParseExtended

Spec == Init /\ [][Next]_vars

-----------------------------------------------------------------------------
(* Vocabulary of the properties, written from the wire format and the      *)
(* ASCII table rather than from the operators above                        *)

Letter(b) == b \in 65..90 \/ b \in 97..122

Upper(b) == b \in 65..90

\* a 4-byte tag passes the validity rule
ValidTagBytes(t) == (\A i \in 1..4 : Letter(t[i])) /\ Upper(t[3])

\* the length a buffer of at least 4 bytes declares; every buffer here is
\* shorter than 65536 bytes, so larger declared lengths are all read as 65536
DeclaredLen(b) == IF b[1] = 0 /\ b[2] = 0 THEN b[3] * 256 + b[4] ELSE 65536

TagField(b) == SubSeq(b, 5, 8)

PayloadField(b) == SubSeq(b, 9, 8 + DeclaredLen(b))

CrcField(b) == SubSeq(b, 9 + DeclaredLen(b), 12 + DeclaredLen(b))

\* the buffer passes the size, tag and bounds checks
WellSized(b) ==
    /\ Len(b) >= 12
    /\ ValidTagBytes(TagField(b))
    /\ 12 + DeclaredLen(b) <= Len(b)

Returned(r) == r.kind \in {"Ok", "Err"}

-----------------------------------------------------------------------------
(* The properties *)

\* C1: round trip.  For a chunk built from a tag with is_valid() true and
\* any payload, parsing the bytes as_bytes() produced succeeds, and the
\* parsed chunk has the same tag bytes, payload bytes and crc().
C1_RoundTrip ==
    (op = "round_trip" /\ is_valid(chunk.val.chunk_type)) =>
        /\ res.kind = "Ok"
        /\ bytes_of(chunk_type_of(res.val)) = bytes_of(chunk_type_of(chunk.val))
        /\ data(res.val) = data(chunk.val)
        /\ crc(res.val) = crc(chunk.val)

C1_Witness ==
    /\ op = "round_trip"
    /\ is_valid(chunk.val.chunk_type)
    /\ length(chunk.val) = MaxData
    /\ res.kind = "Ok"

\* C2 (as claimed): a buffer of at least 12 bytes with a valid tag whose
\* declared length exceeds the bytes left after the 8-byte header makes
\* parse return an error value: no panic, no chunk.
C2_OversizedLengthIsError ==
    (/\ op = "parse"
     /\ Len(buf) >= 12
     /\ ValidTagBytes(TagField(buf))
     /\ DeclaredLen(buf) > Len(buf) - 8) => res.kind = "Err"

\* C3 (as claimed): parse is total.  Every call returns a chunk or an error
\* value and never panics, also when the declared length fits in the bytes
\* after the header but leaves fewer than 4 bytes for the checksum.
C3_ParseNeverPanics ==
    /\ op \in {"parse", "round_trip", "parse_ext"} => Returned(res)
    /\ op = "parse_ext" => Returned(res2)

\* C4 (as claimed): from_str fails with ByteLengthError(actual length) when
\* the byte length is not 4, with InvalidCharacter when it is 4 and some
\* byte is not an ASCII letter, and otherwise returns the tag of those bytes.
C4_TextualTagConstruction ==
    op = "from_str" =>
        IF Len(input) # 4 THEN tagRes = Err(ByteLengthError(Len(input)))
        ELSE IF \E i \in 1..4 : ~Letter(input[i]) THEN tagRes = Err(InvalidCharacter)
        ELSE tagRes.kind = "Ok" /\ bytes_of(tagRes.val) = input

\* C5: validity gate.  For every tag, built from a string or from arbitrary
\* bytes, is_valid() is true exactly when all 4 bytes are ASCII letters and
\* the byte at index 2 is uppercase, whatever the case of bytes 0, 1 and 3.
C5_ValidityGate ==
    (op \in {"from_str", "try_from_bytes"} /\ tagRes.kind = "Ok") =>
        (is_valid(tagRes.val) <=> ValidTagBytes(bytes_of(tagRes.val)))

C5_Witness ==
    /\ op = "try_from_bytes"
    /\ is_valid(tagRes.val)
    /\ ~Upper(input[1]) /\ Upper(input[2]) /\ Upper(input[4])

\* C6: checksum gate.  On a buffer that passes the size, tag and bounds
\* checks, parse returns a chunk exactly when the 4 bytes after the payload
\* are the big-endian checksum of tag bytes followed by payload bytes;
\* otherwise it fails with InvalidCrc(expected, actual), expected being the
\* value read from the buffer and actual the computed one.
C6_ChecksumGate ==
    (op \in {"parse", "round_trip"} /\ WellSized(buf)) =>
        LET computed == checksum_ieee(TagField(buf) \o PayloadField(buf)) IN
        /\ res.kind = "Ok" <=> CrcField(buf) = to_be_bytes(computed)
        /\ CrcField(buf) # to_be_bytes(computed) =>
               /\ res.kind = "Err"
               /\ res.err.name = "InvalidCrc"
               /\ to_be_bytes(res.err.expected) = CrcField(buf)
               /\ res.err.actual = computed

C6_Witness ==
    /\ op = "parse"
    /\ WellSized(buf)
    /\ DeclaredLen(buf) = MaxData
    /\ res.kind = "Err"
    /\ res.err.name = "InvalidCrc"
    /\ res.err.expected = u32_dec(res.err.actual)

\* C7: truncation.  Every buffer of 0 to 11 bytes is refused with
\* InputTooSmall; the call returns (no read past the end, no panic).
C7_TruncationRejected ==
    /\ (op \in {"parse", "parse_ext"} /\ Len(buf) < 12) => res = Err(InputTooSmall)
    /\ (op = "parse_ext" /\ Len(buf2) < 12) => res2 = Err(InputTooSmall)

C7_Witness ==
    /\ op = "parse"
    /\ Len(buf) = 11
    /\ ValidTagBytes(TagField(buf))
    /\ res = Err(InputTooSmall)

\* C8: wire layout.  as_bytes() of a chunk with an N-byte payload is 12 + N
\* bytes: N big-endian, the tag's bytes, the payload, crc() big-endian; and
\* the chunk is the one that was built, unchanged.
C8_WireLayout ==
    op = "as_bytes" =>
        LET N == Len(chunk.val.message_bytes)
            c == crc(chunk.val)
        IN /\ Len(out) = 12 + N
           /\ out[1] * 16777216 + out[2] * 65536 + out[3] * 256 + out[4] = N
           /\ SubSeq(out, 5, 8) = chunk.val.chunk_type.bytes
           /\ SubSeq(out, 9, 8 + N) = chunk.val.message_bytes
           /\ out[9 + N] * 256 + out[10 + N] = c[1]
           /\ out[11 + N] * 256 + out[12 + N] = c[2]
           /\ chunk.val.chunk_type.bytes = input
           /\ chunk.val.message_bytes = payload

C8_Witness ==
    /\ op = "as_bytes"
    /\ Len(chunk.val.message_bytes) = MaxData
    /\ Len(out) = 12 + MaxData

\* C9: trailing data.  When parse succeeds on a buffer, it succeeds on that
\* buffer followed by any further bytes, with the same tag and payload; and
\* bytes from offset 12 + N on never change the result.
C9_TrailingTolerated ==
    op = "parse_ext" =>
        /\ res.kind = "Ok" =>
               /\ res2.kind = "Ok"
               /\ res2.val.chunk_type = res.val.chunk_type
               /\ res2.val.message_bytes = res.val.message_bytes
        /\ (Len(buf) >= 12 /\ 12 + DeclaredLen(buf) <= Len(buf)) => res2 = res

C9_Witness ==
    /\ op = "parse_ext"
    /\ res.kind = "Ok"
    /\ Len(res.val.message_bytes) = MaxData
    /\ Len(buf2) > Len(buf)
    /\ res2.kind = "Ok"

\* C10: tag gate.  A buffer of at least 12 bytes whose bytes 4..7 are not a
\* valid tag is refused with InvalidChunkType whatever its length field and
\* checksum bytes are, so every chunk parse returns has a valid tag.
C10_TagGate ==
    /\ (op \in {"parse", "round_trip", "parse_ext"} /\ Len(buf) >= 12) =>
           /\ ~ValidTagBytes(TagField(buf)) => res = Err(InvalidChunkType)
           /\ res.kind = "Ok" => ValidTagBytes(res.val.chunk_type.bytes)
    /\ op = "parse_ext" =>
           /\ (Len(buf2) >= 12 /\ ~ValidTagBytes(TagField(buf2))) => res2 = Err(InvalidChunkType)
           /\ res2.kind = "Ok" => ValidTagBytes(res2.val.chunk_type.bytes)

C10_Witness ==
    /\ op = "parse"
    /\ Len(buf) >= 12
    /\ ~Upper(buf[7])
    /\ DeclaredLen(buf) > Len(buf) - 8
    /\ res = Err(InvalidChunkType)

=============================================================================
